---- MODULE Spec2Model ----
(***************************************************************************)
(* Model of the label verification backend (ttb-backend).                  *)
(*                                                                         *)
(* Strings are sequences of one-character strings.  The verification       *)
(* engine (normalize, performVerification) is a pure function, modelled as *)
(* operators; the POST /api/verify handler is a state machine per request. *)
(***************************************************************************)
EXTENDS Integers, Sequences, FiniteSets, TLC

VARIABLES
    nText,          \* NormSpec: the string handed to normalize
    nOnce,          \* NormSpec: normalize(nText)
    nTwice,         \* NormSpec: normalize(normalize(nText))
    nPc,            \* NormSpec: "input" | "once" | "twice"
    extractedText,  \* Spec: the OCR text handed to performVerification
    formInput,      \* Spec: the declared label handed to performVerification
    result,         \* Spec: what the call produced (a report or an exception)
    pc,             \* Spec: "call" | "returned"
    reqs,           \* HandlerSpec: per request, the handler's position and locals
    uploads,        \* HandlerSpec: the temp files present in uploads/
    unlinked,       \* HandlerSpec: the paths fs.unlink was invoked on
    responses,      \* HandlerSpec: per request, the HTTP response sent (or none)
    errLog          \* HandlerSpec: number of console.error lines written

vars == <<nText, nOnce, nTwice, nPc, extractedText, formInput, result, pc,
          reqs, uploads, unlinked, responses, errLog>>

normVars == <<nText, nOnce, nTwice, nPc>>
engineVars == <<extractedText, formInput, result, pc>>
handlerVars == <<reqs, uploads, unlinked, responses, errLog>>

(***************************************************************************)
(* Characters.                                                             *)
(***************************************************************************)
Digits == {"0", "1", "2", "3", "4", "5", "6", "7", "8", "9"}

LowerLetters == {"a", "b", "c", "d", "e", "f", "g", "h", "i", "j", "k", "l", "m",
                 "n", "o", "p", "q", "r", "s", "t", "u", "v", "w", "x", "y", "z"}

UpperLetters == {"A", "B", "C", "D", "E", "F", "G", "H", "I", "J", "K", "L", "M",
                 "N", "O", "P", "Q", "R", "S", "T", "U", "V", "W", "X", "Y", "Z"}

Letters == LowerLetters \cup UpperLetters

\* \s of a JavaScript regular expression (and the set String.prototype.trim removes)
WhiteSpace == {" ", "\t", "\n", "\r"}

\* the line terminators "." does not match
LineTerminators == {"\n", "\r"}

\* \w of a JavaScript regular expression
WordChars == Letters \cup Digits \cup {"_"}

\* the character class normalize strips: . , / # ! $ % ^ & * ; : { } = - _
\* backtick ~ ( ).  The backtick is written by name.
StrippedPunctuation == {".", ",", "/", "#", "!", "$", "%", "^", "&", "*", ";", ":",
                        "{", "}", "=", "-", "_", "backtick", "~", "(", ")"}

LowerOf(c) ==
    CASE c = "A" -> "a" [] c = "B" -> "b" [] c = "C" -> "c" [] c = "D" -> "d"
      [] c = "E" -> "e" [] c = "F" -> "f" [] c = "G" -> "g" [] c = "H" -> "h"
      [] c = "I" -> "i" [] c = "J" -> "j" [] c = "K" -> "k" [] c = "L" -> "l"
      [] c = "M" -> "m" [] c = "N" -> "n" [] c = "O" -> "o" [] c = "P" -> "p"
      [] c = "Q" -> "q" [] c = "R" -> "r" [] c = "S" -> "s" [] c = "T" -> "t"
      [] c = "U" -> "u" [] c = "V" -> "v" [] c = "W" -> "w" [] c = "X" -> "x"
      [] c = "Y" -> "y" [] c = "Z" -> "z" [] OTHER -> c

(***************************************************************************)
(* String primitives of the JavaScript runtime used by the engine.         *)
(***************************************************************************)
toLowerCase(s) == [i \in 1..Len(s) |-> LowerOf(s[i])]

\* the first .replace of normalize: every stripped character is removed
StripPunctuation(s) == SelectSeq(s, LAMBDA c : c \notin StrippedPunctuation)

\* end (exclusive index) of the whitespace run that starts at index i
RECURSIVE WsRunEnd(_, _)
WsRunEnd(s, i) ==
    IF i <= Len(s) /\ s[i] \in WhiteSpace THEN WsRunEnd(s, i + 1) ELSE i

\* the second .replace of normalize, /\s{2,}/g by one space: every maximal
\* run of two or more whitespace characters becomes one space; a single
\* whitespace character stays as it is
CollapseWhitespace(s) ==
    LET isWs(i) == i >= 1 /\ i <= Len(s) /\ s[i] \in WhiteSpace
        inRun(i) == isWs(i) /\ (isWs(i - 1) \/ isWs(i + 1))
        marked == [i \in 1..Len(s) |->
                     IF inRun(i) THEN (IF isWs(i - 1) THEN "drop" ELSE " ")
                     ELSE s[i]]
    IN  SelectSeq(marked, LAMBDA c : c # "drop")

\* String.prototype.trim
trim(s) ==
    LET kept == {i \in 1..Len(s) : s[i] \notin WhiteSpace}
    IN  IF kept = {} THEN <<>>
        ELSE SubSeq(s, CHOOSE i \in kept : \A j \in kept : i <= j,
                       CHOOSE i \in kept : \A j \in kept : i >= j)

\* a buggy normalize that collapses whitespace before stripping punctuation
normalize_CollapseFirst(text) ==
    IF text = <<>> THEN <<>>
    ELSE trim(StripPunctuation(CollapseWhitespace(toLowerCase(text))))

\* normalize(text): lower-case, strip the punctuation set, collapse whitespace
\* runs, trim.  A falsy argument (here: the empty string) gives the empty string.
normalize(text) ==
    IF text = <<>> THEN <<>>
    ELSE trim(CollapseWhitespace(StripPunctuation(toLowerCase(text))))

\* String.prototype.includes
includes(hay, needle) ==
    \E i \in 1..(Len(hay) - Len(needle) + 1) :
        SubSeq(hay, i, i + Len(needle) - 1) = needle

(***************************************************************************)
(* Regular expressions.  A pattern source is a sequence of tokens, so that *)
(* building a pattern by interpolating strings into a template is          *)
(* concatenation, as it is in the code; compiling it splits the sequence   *)
(* at its top-level alternation bars.                                      *)
(***************************************************************************)
Lit(c) == [k |-> "lit", c |-> c, alts |-> <<>>]         \* a literal character
AnyChar == [k |-> "any", c |-> "", alts |-> <<>>]       \* .
WordBoundary == [k |-> "wb", c |-> "", alts |-> <<>>]   \* \b
WsStar == [k |-> "ws", c |-> "", alts |-> <<>>]         \* \s*
Bar == [k |-> "bar", c |-> "", alts |-> <<>>]           \* |
OpenParen == [k |-> "open", c |-> "", alts |-> <<>>]    \* an unescaped (
OptGroup(alts) == [k |-> "opt", c |-> "", alts |-> alts] \* (?:a|b|c)?

Lits(s) == [i \in 1..Len(s) |-> Lit(s[i])]

\* what one character of an interpolated string means in a pattern source:
\* the string is spliced in unescaped
TokenOfChar(c) ==
    IF c = "." THEN AnyChar
    ELSE IF c = "(" THEN OpenParen
    ELSE IF c = "|" THEN Bar
    ELSE Lit(c)

Interpolate(s) == [i \in 1..Len(s) |-> TokenOfChar(s[i])]

\* new RegExp(source) raises SyntaxError on an unterminated group
RegExpThrows(source) == \E i \in 1..Len(source) : source[i].k = "open"

\* index of the first top-level bar at or after i, or Len + 1
RECURSIVE NextBar(_, _)
NextBar(source, i) ==
    IF i > Len(source) \/ source[i].k = "bar" THEN i ELSE NextBar(source, i + 1)

\* the alternatives of a pattern source
RECURSIVE AlternativesFrom(_, _)
AlternativesFrom(source, i) ==
    LET e == NextBar(source, i)
    IN  IF e > Len(source) THEN <<SubSeq(source, i, Len(source))>>
        ELSE <<SubSeq(source, i, e - 1)>> \o AlternativesFrom(source, e + 1)

\* compiling: the bar has the lowest precedence, so each alternative runs
\* from one bar (or the start) to the next (or the end)
Compile(source) == AlternativesFrom(source, 1)

IsWordAt(text, i) == i >= 1 /\ i <= Len(text) /\ text[i] \in WordChars

\* \b at offset pos (between text[pos] and text[pos + 1])
AtWordBoundary(text, pos) == IsWordAt(text, pos) # IsWordAt(text, pos + 1)

\* The offsets at which a match of atoms[k..] that starts at offset pos can
\* end (flag i: letters compare case-insensitively).  Backtracking finds a
\* match exactly when this set is not empty.
RECURSIVE MatchAtoms(_, _, _, _)
RECURSIVE MatchAlts(_, _, _)
MatchAtoms(atoms, k, text, pos) ==
    IF k > Len(atoms) THEN {pos}
    ELSE LET a == atoms[k] IN
         CASE a.k = "lit" ->
                IF pos < Len(text) /\ LowerOf(text[pos + 1]) = LowerOf(a.c)
                THEN MatchAtoms(atoms, k + 1, text, pos + 1) ELSE {}
           [] a.k = "any" ->
                IF pos < Len(text) /\ text[pos + 1] \notin LineTerminators
                THEN MatchAtoms(atoms, k + 1, text, pos + 1) ELSE {}
           [] a.k = "wb" ->
                IF AtWordBoundary(text, pos)
                THEN MatchAtoms(atoms, k + 1, text, pos) ELSE {}
           [] a.k = "ws" ->
                UNION {MatchAtoms(atoms, k + 1, text, p) :
                         p \in pos..(WsRunEnd(text, pos + 1) - 1)}
           [] a.k = "opt" ->
                UNION {MatchAtoms(atoms, k + 1, text, p) :
                         p \in {pos} \cup MatchAlts(a.alts, text, pos)}
           [] OTHER -> {}

MatchAlts(alts, text, pos) ==
    UNION {MatchAtoms(alts[n], 1, text, pos) : n \in 1..Len(alts)}

\* RegExp.prototype.test: a match starting at some offset
RegExpTest(alts, text) ==
    \E pos \in 0..Len(text) : MatchAlts(alts, text, pos) # {}

\* String.prototype.replace(needle, replacement) with a string needle, on
\* a pattern source: the first occurrence only
RECURSIVE FirstIndexOf(_, _, _)
FirstIndexOf(source, needle, i) ==
    IF i + Len(needle) - 1 > Len(source) THEN 0
    ELSE IF SubSeq(source, i, i + Len(needle) - 1) = needle THEN i
    ELSE FirstIndexOf(source, needle, i + 1)

ReplaceFirst(source, needle, replacement) ==
    LET i == FirstIndexOf(source, needle, 1)
    IN  IF i = 0 THEN source
        ELSE SubSeq(source, 1, i - 1) \o replacement
             \o SubSeq(source, i + Len(needle), Len(source))

(***************************************************************************)
(* Values of the declared label (formInput).  A string field is present or *)
(* absent (undefined); alcoholContent is absent, a number (held in tenths  *)
(* of a percent, so that 45.0 and 45 are the same number) or a string.     *)
(***************************************************************************)
Undefined == [present |-> FALSE, v |-> <<>>]
Str(s) == [present |-> TRUE, v |-> s]

NoAbv == [kind |-> "absent", tenths |-> 0, v |-> <<>>]
NumAbv(t) == [kind |-> "num", tenths |-> t, v |-> <<>>]
StrAbv(s) == [kind |-> "str", tenths |-> 0, v |-> s]

\* field || '' for a string field
OrEmpty(f) == IF f.present THEN f.v ELSE <<>>

DigitChar(d) == <<"0", "1", "2", "3", "4", "5", "6", "7", "8", "9">>[d + 1]

RECURSIVE DigitsOf(_)
DigitsOf(n) ==
    IF n < 10 THEN <<DigitChar(n)>> ELSE DigitsOf(n \div 10) \o <<DigitChar(n % 10)>>

\* String(x) of a non-negative number x = t / 10: no trailing .0
NumberToString(t) ==
    IF t % 10 = 0 THEN DigitsOf(t \div 10)
    ELSE DigitsOf(t \div 10) \o <<".", DigitChar(t % 10)>>

\* how string concatenation renders formInput.alcoholContent
AbvToString(f) ==
    CASE f.kind = "absent" -> <<"u", "n", "d", "e", "f", "i", "n", "e", "d">>
      [] f.kind = "num" -> NumberToString(f.tenths)
      [] OTHER -> f.v

\* String(formInput.alcoholContent || 0).trim(): absent, 0 and the empty
\* string are falsy and give the text 0
AlcoholContentString(f) ==
    CASE f.kind = "absent" -> <<"0">>
      [] f.kind = "num" -> IF f.tenths = 0 THEN <<"0">> ELSE NumberToString(f.tenths)
      [] OTHER -> IF f.v = <<>> THEN <<"0">> ELSE trim(f.v)

(***************************************************************************)
(* performVerification.                                                    *)
(***************************************************************************)
Match == "Match"
NotFoundOrMismatch == "Not Found/Mismatch"
MismatchUnitMissing == "Mismatch (Unit Missing)"

\* --- 1. Brand Name Check, 2. Product Class/Type Check ---
SubstringStatus(declared, normalizedText) ==
    IF Len(declared) > 0 /\ includes(normalizedText, declared)
    THEN Match ELSE NotFoundOrMismatch

\* --- 3. Alcohol Content (ABV) Check ---
AbvTail == <<OptGroup(<<Lits(<<".", "0">>)>>), WsStar, Lit("%")>>

AbvUnits == OptGroup(<<Lits(<<"a", "l", "c", ".">>), Lits(<<"v", "o", "l", ".">>),
                       Lits(<<"b", "y">>) \o <<WsStar>> \o Lits(<<"v", "o", "l", ".">>)>>)

\* the pattern source of abvRegex, alcoholContent spliced in twice
AbvRegexSource(alcoholContent) ==
    <<WordBoundary>> \o Interpolate(alcoholContent) \o AbvTail
        \o <<WsStar, AbvUnits, Bar, WordBoundary>>
        \o Interpolate(alcoholContent) \o AbvTail

\* a buggy check without the guard against a zero claim
AbvStatus_NoZeroGuard(alcoholContent, extracted) ==
    IF RegExpTest(Compile(AbvRegexSource(alcoholContent)), extracted)
    THEN Match ELSE NotFoundOrMismatch

AbvStatus(alcoholContent, extracted) ==
    IF alcoholContent # <<"0">>
       /\ RegExpTest(Compile(AbvRegexSource(alcoholContent)), extracted)
    THEN Match ELSE NotFoundOrMismatch

\* --- 4. Net Contents Check ---
RECURSIVE DigitRunEnd(_, _)
DigitRunEnd(s, i) ==
    IF i <= Len(s) /\ s[i] \in Digits THEN DigitRunEnd(s, i + 1) ELSE i

RECURSIVE LetterRunEnd(_, _)
LetterRunEnd(s, i) ==
    IF i <= Len(s) /\ s[i] \in Letters THEN LetterRunEnd(s, i + 1) ELSE i

\* The ways /(\d+\.?\d*)\s*([a-zA-Z]+)/ matches from index i: how many
\* characters \d+, \.?, \d* and \s* take, a letter following.
ParseWays(s, i) ==
    UNION {UNION {UNION {
        {<<n1, d, n2, w>> :
            w \in {w \in 0..(WsRunEnd(s, i + n1 + d + n2) - (i + n1 + d + n2)) :
                     LetterRunEnd(s, i + n1 + d + n2 + w) > i + n1 + d + n2 + w}} :
        n2 \in 0..(DigitRunEnd(s, i + n1 + d) - (i + n1 + d))} :
        d \in {d \in 0..1 : d = 1 => (i + n1 <= Len(s) /\ s[i + n1] = ".")}} :
        n1 \in 1..(DigitRunEnd(s, i) - i)}

\* greedy quantifiers, backtracking from the right: the way found first is
\* the greatest in the order n1, then d, then n2, then w
Prefers(a, b) ==
    \/ a[1] > b[1]
    \/ a[1] = b[1] /\ a[2] > b[2]
    \/ a[1] = b[1] /\ a[2] = b[2] /\ a[3] > b[3]
    \/ a[1] = b[1] /\ a[2] = b[2] /\ a[3] = b[3] /\ a[4] >= b[4]

NoMatch == [ok |-> FALSE, volume |-> <<>>, unit |-> <<>>]

\* formInput.netContents.match(/(\d+\.?\d*)\s*([a-zA-Z]+)/i): the leftmost
\* match, its two capture groups
NetContentsMatch(s) ==
    LET starts == {i \in 1..Len(s) : ParseWays(s, i) # {}}
    IN  IF starts = {} THEN NoMatch
        ELSE LET i == CHOOSE x \in starts : \A y \in starts : x <= y
                 ways == ParseWays(s, i)
                 way == CHOOSE a \in ways : \A b \in ways : Prefers(a, b)
                 numEnd == i + way[1] + way[2] + way[3]
                 u == numEnd + way[4]
             IN  [ok |-> TRUE,
                  volume |-> SubSeq(s, i, numEnd - 1),
                  unit |-> SubSeq(s, u, LetterRunEnd(s, u) - 1)]

\* normalize(formInput.netContents).match(/(\d+\.?\d*)/): the leftmost run
\* of digits, a dot and more digits after it when there are any
VolumeOnly(s) ==
    LET starts == {i \in 1..Len(s) : s[i] \in Digits}
    IN  IF starts = {} THEN NoMatch
        ELSE LET i == CHOOSE x \in starts : \A y \in starts : x <= y
                 e1 == DigitRunEnd(s, i)
                 e2 == IF e1 <= Len(s) /\ s[e1] = "." THEN DigitRunEnd(s, e1 + 1) ELSE e1
             IN  [ok |-> TRUE, volume |-> SubSeq(s, i, e2 - 1), unit |-> <<>>]

FlozPattern == Lits(<<"f", "l">>) \o <<WsStar>> \o Lits(<<"o", "z">>) \o <<Bar>>
               \o Lits(<<"f", "l", "o", "z">>)

MlPattern == <<Lit("m"), WsStar, Lit("l"), Bar, Lit("m"), Lit("l"), Bar>>
             \o Lits(<<"m", "i", "l", "l", "i", "l", "i", "t", "e", "r">>) \o <<Bar>> \o Lits(<<"m", "i", "l", "l", "i", "l", "i", "t", "r", "e", "s">>)

\* unit.replace('floz', ...).replace('ml', ...)
UnitPattern(unit) ==
    ReplaceFirst(ReplaceFirst(Lits(unit), Lits(<<"f", "l", "o", "z">>), FlozPattern),
                 Lits(<<"m", "l">>), MlPattern)

\* the pattern source of searchRegex: volume and unitPattern spliced in
SearchRegexSource(volume, unit) ==
    <<WordBoundary>> \o Interpolate(volume) \o <<WsStar>> \o UnitPattern(unit)
        \o <<WordBoundary>>

\* a buggy check that never reports the missing unit
NetContentsCheck_NoUnitMissing(netContents, normalizedText) ==
    LET isMandatoryCheck == Len(normalize(netContents)) > 0
        m == NetContentsMatch(netContents)
    IN  IF m.ok
        THEN IF RegExpTest(Compile(SearchRegexSource(m.volume, normalize(m.unit))),
                           normalizedText)
             THEN [status |-> Match, fails |-> FALSE, mandatory |-> isMandatoryCheck]
             ELSE [status |-> NotFoundOrMismatch, fails |-> isMandatoryCheck,
                   mandatory |-> isMandatoryCheck]
        ELSE [status |-> NotFoundOrMismatch, fails |-> isMandatoryCheck,
              mandatory |-> isMandatoryCheck]

\* a buggy check in which a blank net contents fails the report
NetContentsCheck_BlankFails(netContents, normalizedText) ==
    LET isMandatoryCheck == Len(normalize(netContents)) > 0
        m == NetContentsMatch(netContents)
    IN  IF m.ok
        THEN IF RegExpTest(Compile(SearchRegexSource(m.volume, normalize(m.unit))),
                           normalizedText)
             THEN [status |-> Match, fails |-> FALSE, mandatory |-> isMandatoryCheck]
             ELSE [status |-> NotFoundOrMismatch, fails |-> TRUE,
                   mandatory |-> isMandatoryCheck]
        ELSE LET volumeOnly == VolumeOnly(normalize(netContents))
             IN  IF isMandatoryCheck /\ volumeOnly.ok
                    /\ includes(normalizedText, volumeOnly.volume)
                 THEN [status |-> MismatchUnitMissing, fails |-> TRUE,
                       mandatory |-> isMandatoryCheck]
                 ELSE [status |-> NotFoundOrMismatch, fails |-> TRUE,
                       mandatory |-> isMandatoryCheck]

\* the status of the Net Contents row, whether the check sets overallMatch
\* to false, and isMandatoryCheck
NetContentsCheck(netContents, normalizedText) ==
    LET isMandatoryCheck == Len(normalize(netContents)) > 0
        m == NetContentsMatch(netContents)
    IN  IF m.ok
        THEN IF RegExpTest(Compile(SearchRegexSource(m.volume, normalize(m.unit))),
                           normalizedText)
             THEN [status |-> Match, fails |-> FALSE, mandatory |-> isMandatoryCheck]
             ELSE [status |-> NotFoundOrMismatch, fails |-> isMandatoryCheck,
                   mandatory |-> isMandatoryCheck]
        ELSE IF isMandatoryCheck
        THEN LET volumeOnly == VolumeOnly(normalize(netContents))
             IN  IF volumeOnly.ok /\ includes(normalizedText, volumeOnly.volume)
                 THEN [status |-> MismatchUnitMissing, fails |-> TRUE,
                       mandatory |-> isMandatoryCheck]
                 ELSE [status |-> NotFoundOrMismatch, fails |-> TRUE,
                       mandatory |-> isMandatoryCheck]
        ELSE [status |-> NotFoundOrMismatch, fails |-> FALSE,
              mandatory |-> isMandatoryCheck]

\* --- 5. Government Warning Check ---
warningPhrase == <<"g", "o", "v", "e", "r", "n", "m", "e", "n", "t", " ", "w", "a", "r", "n", "i", "n", "g">>

WarningStatus(normalizedText) ==
    IF includes(normalizedText, warningPhrase) THEN Match ELSE NotFoundOrMismatch

Row(field, status, expected) == [field |-> field, status |-> status, expected |-> expected]

Exception(name) ==
    [kind |-> "exception", error |-> name, overall_match |-> FALSE, discrepancies |-> <<>>]

\* the exception the call raises, or none: new RegExp on the spliced
\* alcoholContent (SyntaxError), then .match on an undefined netContents
\* (TypeError)
Raises(formInput_) ==
    IF RegExpThrows(AbvRegexSource(AlcoholContentString(formInput_.alcoholContent)))
    THEN "SyntaxError"
    ELSE IF ~formInput_.netContents.present THEN "TypeError"
    ELSE "none"

\* a buggy aggregation that forgets the government warning
OverallMatch_IgnoresWarning(brandStatus, classStatus, abvStatus, net, warningStatus) ==
    /\ brandStatus = Match
    /\ classStatus = Match
    /\ abvStatus = Match
    /\ ~net.fails

\* overallMatch: starts true, set to false by each failing branch
OverallMatch(brandStatus, classStatus, abvStatus, net, warningStatus) ==
    /\ brandStatus = Match
    /\ classStatus = Match
    /\ abvStatus = Match
    /\ ~net.fails
    /\ warningStatus = Match

performVerification(extractedText_, formInput_) ==
    LET normalizedText == normalize(extractedText_)
        brandName == normalize(OrEmpty(formInput_.brandName))
        productClass == normalize(OrEmpty(formInput_.productClass))
        alcoholContent == AlcoholContentString(formInput_.alcoholContent)
        brandStatus == SubstringStatus(brandName, normalizedText)
        classStatus == SubstringStatus(productClass, normalizedText)
        abvStatus == AbvStatus(alcoholContent, extractedText_)
        net == NetContentsCheck(formInput_.netContents.v, normalizedText)
        warningStatus == WarningStatus(normalizedText)
    IN  IF Raises(formInput_) # "none" THEN Exception(Raises(formInput_))
        ELSE [kind |-> "report",
              error |-> "none",
              overall_match |->
                  OverallMatch(brandStatus, classStatus, abvStatus, net, warningStatus),
              discrepancies |-> <<
                  Row("Brand Name", brandStatus, formInput_.brandName),
                  Row("Product Class/Type", classStatus, formInput_.productClass),
                  Row("Alcohol Content", abvStatus,
                      AbvToString(formInput_.alcoholContent) \o <<"%", " ", "(", "w", "i", "t", "h", "i", "n", " ", "t", "o", "l", "e", "r", "a", "n", "c", "e", ")">>),
                  Row("Net Contents", net.status,
                      formInput_.netContents.v
                          \o (IF net.mandatory THEN <<>> ELSE <<" ", "(", "O", "p", "t", "i", "o", "n", "a", "l", ")">>)),
                  Row("Government Warning", warningStatus, <<"P", "h", "r", "a", "s", "e", " ", "dquote", "G", "O", "V", "E", "R", "N", "M", "E", "N", "T", " ", "W", "A", "R", "N", "I", "N", "G", "dquote", " ", "p", "r", "e", "s", "e", "n", "t">>) >>]

(***************************************************************************)
(* Spec: performVerification called once on a label text and a declared    *)
(* label.  The text is up to MaxLines lines of a label, in label order;    *)
(* the declared fields are drawn independently.                            *)
(***************************************************************************)
MaxLines == 4

LabelLines == <<
    <<"O", "L", "D", " ", "T", "O", "M", " ", "B", "o", "u", "r", "b", "o", "n">>,
    <<"4", "5", "%", " ", "A", "l", "c", ".", "/", "V", "o", "l", ".">>,
    <<"4", ".", "5", " ", "%", " ", "b", "y", " ", "v", "o", "l", ".">>,
    <<"4", "1", "5", "%">>,
    <<"0", "%">>,
    <<"7", "5", "0", " ", "M", "L">>,
    <<"5", "0", "0", " ", "m", "l">>,
    <<"1", ".", "5", " ", "L">>,
    <<"1", "2", " ", "F", "L", " ", "O", "Z">>,
    <<"G", "O", "V", "E", "R", "N", "M", "E", "N", "T", " ", "W", "A", "R", "N", "I", "N", "G", ":">> >>

RECURSIVE JoinLines(_, _)
JoinLines(chosen, i) ==
    IF i > Len(LabelLines) THEN <<>>
    ELSE (IF i \in chosen THEN LabelLines[i] \o <<"\n">> ELSE <<>>)
         \o JoinLines(chosen, i + 1)

LabelTexts ==
    {JoinLines(chosen, 1) :
        chosen \in {c \in SUBSET (1..Len(LabelLines)) : Cardinality(c) <= MaxLines}}

BrandNames == {Undefined, Str(<<"O", "l", "d", " ", "T", "o", "m">>), Str(<<"O", "l", "d", " ", "S", "A", "M">>)}

ProductClasses == {Undefined, Str(<<"B", "o", "u", "r", "b", "o", "n">>)}

AlcoholContents == {NoAbv, NumAbv(0), NumAbv(450), NumAbv(45), StrAbv(<<"4", "(">>)}

NetContents == {Undefined, Str(<<>>), Str(<<" ", "-">>), Str(<<"7", "5", "0", " ", "m", "L">>), Str(<<"7", "5", "0">>), Str(<<"1", ".", "5", " ", "L">>),
                Str(<<"5", "0", "0", " ", "m", "l">>), Str(<<"1", "2", " ", "f", "l", "o", "z">>), Str(<<"m", "l">>)}

FormInputs ==
    [brandName : BrandNames, productClass : ProductClasses,
     alcoholContent : AlcoholContents, netContents : NetContents]

\* placeholders of the variables a specification does not use
NoForm == [brandName |-> Undefined, productClass |-> Undefined,
           alcoholContent |-> NoAbv, netContents |-> Undefined]

NoResult == [kind |-> "none", error |-> "none", overall_match |-> FALSE,
             discrepancies |-> <<>>]

Init ==
    /\ extractedText \in LabelTexts
    /\ formInput \in FormInputs
    /\ result = NoResult
    /\ pc = "call"
    /\ nText = <<>>
    /\ nOnce = <<>>
    /\ nTwice = <<>>
    /\ nPc = "idle"
    /\ reqs = <<>>
    /\ uploads = {}
    /\ unlinked = {}
    /\ responses = <<>>
    /\ errLog = 0

Verify ==
    /\ pc = "call"
    /\ result' = performVerification(extractedText, formInput)
    /\ pc' = "returned"
    /\ UNCHANGED <<extractedText, formInput, normVars, handlerVars>>

Next == Verify

Spec == Init /\ [][Next]_vars

Returned == pc = "returned" /\ result.kind = "report"

StatusOf(n) == result.discrepancies[n].status

(***************************************************************************)
(* Properties of performVerification (checked under Spec).                 *)
(***************************************************************************)
AllRows == 1..5

declaredNet == formInput.netContents.v

\* isMandatoryCheck as the specification words it
NetIsMandatory == normalize(declaredNet) # <<>>

AbvIsZeroOrAbsent ==
    \/ formInput.alcoholContent.kind = "absent"
    \/ formInput.alcoholContent.kind = "num" /\ formInput.alcoholContent.tenths = 0

\* C1: performVerification is total: for every text and every declared
\* label, fields absent, empty or malformed included, the call returns a
\* report and never raises an exception.
C1_NeverRaises == pc = "returned" => result.kind = "report"

\* C2: overall_match is true if and only if every row of discrepancies has
\* status Match.
C2_OverallIffEveryRowMatch ==
    Returned => (result.overall_match <=> \A n \in AllRows : StatusOf(n) = Match)

\* C2 (amended): overall_match is true if and only if every row has status
\* Match, the Net Contents row excepted when the declared netContents
\* normalizes to the empty string.
C2_OverallIffEveryRowMatchButBlankNet ==
    Returned =>
        (result.overall_match <=>
            \A n \in AllRows :
                \/ StatusOf(n) = Match
                \/ /\ result.discrepancies[n].field = "Net Contents"
                   /\ ~NetIsMandatory
                   /\ StatusOf(n) = NotFoundOrMismatch)

\* a report whose overall verdict is true although the blank Net Contents
\* row is not a Match
C2_Witness ==
    /\ Returned
    /\ result.overall_match
    /\ StatusOf(4) = NotFoundOrMismatch
    /\ declaredNet = <<>>

\* C3: overall_match is true if and only if every mandatory row has status
\* Match; Brand Name, Product Class, Alcohol Content and Government Warning
\* are always mandatory, Net Contents exactly when the declared netContents
\* normalizes to a non-empty string; with a blank netContents the Net
\* Contents row is still emitted and never makes overall_match false.
C3_OverallIffMandatoryMatch ==
    Returned =>
        LET mandatory == IF NetIsMandatory THEN AllRows ELSE AllRows \ {4}
        IN  /\ result.overall_match <=> \A n \in mandatory : StatusOf(n) = Match
            /\ Len(result.discrepancies) = 5
            /\ result.discrepancies[4].field = "Net Contents"
            /\ declaredNet = <<>> =>
                  (result.overall_match <=> \A n \in {1, 2, 3, 5} : StatusOf(n) = Match)

\* a blank netContents, the row emitted with a non-Match status, the rest
\* matching and the verdict true
C3_Witness ==
    /\ Returned
    /\ declaredNet = <<>>
    /\ result.discrepancies[4].field = "Net Contents"
    /\ StatusOf(4) # Match
    /\ \A n \in {1, 2, 3, 5} : StatusOf(n) = Match
    /\ result.overall_match

\* the spellings accepted for a unit: each alternative of its unit pattern
AcceptedSpellings(unit) ==
    LET alts == Compile(UnitPattern(unit)) IN {alts[n] : n \in 1..Len(alts)}

\* the text holds, at word boundaries, the volume as written, optional
\* whitespace and one accepted spelling of the unit
VolumeNextToUnit(volume, unit, text) ==
    \E spelling \in AcceptedSpellings(unit) :
        RegExpTest(<< <<WordBoundary>> \o Lits(volume) \o <<WsStar>> \o spelling
                      \o <<WordBoundary>> >>, text)

\* C4: tier 1: when the declared netContents parses as number, optional
\* whitespace, letters, the Net Contents status is Match if and only if the
\* normalized text holds, at word boundaries, the declared volume followed
\* by optional whitespace and an accepted spelling of the declared unit.
C4_Tier1MatchIffVolumeNextToUnit ==
    (Returned /\ NetContentsMatch(declaredNet).ok) =>
        LET m == NetContentsMatch(declaredNet)
        IN  StatusOf(4) = Match
                <=> VolumeNextToUnit(m.volume, normalize(m.unit), normalize(extractedText))

\* C5: for a non-zero declared ABV the status is Match if and only if the
\* raw text holds, from a word boundary, the decimal rendering of the
\* declared number, an optional .0, optional whitespace and a percent sign.
C5_AbvMatchIffRendering ==
    (Returned /\ ~AbvIsZeroOrAbsent) =>
        (StatusOf(3) = Match
            <=> RegExpTest(<< <<WordBoundary>>
                              \o Lits(AlcoholContentString(formInput.alcoholContent))
                              \o AbvTail >>, extractedText))

\* C6: when the declared alcoholContent is zero or absent, the Alcohol
\* Content status is Not Found/Mismatch and overall_match is false, whatever
\* the text.
C6_ZeroAbvNeverMatches ==
    (Returned /\ AbvIsZeroOrAbsent) =>
        (StatusOf(3) = NotFoundOrMismatch /\ ~result.overall_match)

\* a zero claim checked against a text that reads 0%
C6_Witness ==
    /\ Returned
    /\ formInput.alcoholContent = NumAbv(0)
    /\ includes(extractedText, <<"0", "%">>)
    /\ StatusOf(3) = NotFoundOrMismatch

\* C7: tier 2: when the declared netContents normalizes to a non-empty
\* string that does not parse as number then letters, the status is never
\* Match and overall_match is false; the status is Mismatch (Unit Missing)
\* exactly when the first numeric substring of the normalized declared value
\* occurs in the normalized text, and Not Found/Mismatch otherwise.
C7_Tier2NeverMatches ==
    (Returned /\ NetIsMandatory /\ ~NetContentsMatch(declaredNet).ok) =>
        LET number == VolumeOnly(normalize(declaredNet))
            found == number.ok /\ includes(normalize(extractedText), number.volume)
        IN  /\ StatusOf(4) # Match
            /\ ~result.overall_match
            /\ StatusOf(4) = (IF found THEN MismatchUnitMissing ELSE NotFoundOrMismatch)

\* a declared 750 without a unit, its number found in the text
C7_Witness ==
    /\ Returned
    /\ declaredNet = <<"7", "5", "0">>
    /\ StatusOf(4) = MismatchUnitMissing
    /\ ~result.overall_match

\* s is a number (digits, optionally a decimal point and digits), optional
\* whitespace and letters, and nothing else
IsNumberThenUnit(s) ==
    LET e1 == DigitRunEnd(s, 1)
        e2 == IF e1 <= Len(s) /\ s[e1] = "." THEN DigitRunEnd(s, e1 + 1) ELSE e1
        e3 == WsRunEnd(s, e2)
        e4 == LetterRunEnd(s, e3)
    IN  e1 > 1 /\ e4 > e3 /\ e4 = Len(s) + 1

\* token occurs in text between whitespace or the ends of the text
HoldsToken(text, token) ==
    \E i \in 1..(Len(text) - Len(token) + 1) :
        /\ SubSeq(text, i, i + Len(token) - 1) = token
        /\ i = 1 \/ text[i - 1] \in WhiteSpace
        /\ i + Len(token) - 1 = Len(text) \/ text[i + Len(token)] \in WhiteSpace

\* C10: when the declared netContents is a number (possibly with a decimal
\* point) followed by optional whitespace and a unit of letters, and the raw
\* text holds that exact string as a whole token, the status is Match.
C10_DeclaredStringMatchesItself ==
    (Returned /\ IsNumberThenUnit(declaredNet) /\ HoldsToken(extractedText, declaredNet))
        => StatusOf(4) = Match

(***************************************************************************)
(* NormSpec: normalize applied once and twice to every string over a small *)
(* alphabet that mixes case, stripped punctuation and whitespace kinds.    *)
(***************************************************************************)
MaxNormLen == 5

NormAlphabet == {"A", "b", ".", "?", " ", "\n"}

RECURSIVE StringsUpTo(_, _)
StringsUpTo(alphabet, n) ==
    IF n = 0 THEN {<<>>}
    ELSE LET shorter == StringsUpTo(alphabet, n - 1)
         IN  shorter \cup {Append(s, c) : s \in shorter, c \in alphabet}

NormInit ==
    /\ nText \in StringsUpTo(NormAlphabet, MaxNormLen)
    /\ nOnce = <<>>
    /\ nTwice = <<>>
    /\ nPc = "input"
    /\ extractedText = <<>>
    /\ formInput = NoForm
    /\ result = NoResult
    /\ pc = "idle"
    /\ reqs = <<>>
    /\ uploads = {}
    /\ unlinked = {}
    /\ responses = <<>>
    /\ errLog = 0

NormalizeOnce ==
    /\ nPc = "input"
    /\ nOnce' = normalize(nText)
    /\ nPc' = "once"
    /\ UNCHANGED <<nText, nTwice, engineVars, handlerVars>>

NormalizeTwice ==
    /\ nPc = "once"
    /\ nTwice' = normalize(nOnce)
    /\ nPc' = "twice"
    /\ UNCHANGED <<nText, nOnce, engineVars, handlerVars>>

NormNext == NormalizeOnce \/ NormalizeTwice

NormSpec == NormInit /\ [][NormNext]_vars

\* C9: normalize is idempotent: normalizing an already normalized string
\* gives the same string back.
C9_NormalizeIdempotent == nPc = "twice" => nTwice = nOnce

\* a string mixing case, punctuation and a whitespace run was normalized twice
C9_Witness ==
    /\ nPc = "twice"
    /\ nText = <<"A", " ", ".", "\n", "b">>
    /\ nOnce = <<"a", " ", "b">>

(***************************************************************************)
(* HandlerSpec: POST /api/verify.  Each request uploads a file or not; the *)
(* handler runs to its await of the OCR call, resumes when the call        *)
(* settles, and its finally block starts fs.unlink, whose callback runs    *)
(* later.  The temp file of request r is the path r.                       *)
(***************************************************************************)
NumRequests == 2

Requests == 1..NumRequests

\* extractedText.substring(0, 300)
TruncateLength == 300

HandlerForms ==
    {[brandName |-> Str(<<"O", "l", "d", " ", "T", "o", "m">>), productClass |-> Str(<<"B", "o", "u", "r", "b", "o", "n">>),
      alcoholContent |-> NumAbv(450), netContents |-> Str(<<"7", "5", "0", " ", "m", "L">>)],
     [brandName |-> Str(<<"O", "l", "d", " ", "T", "o", "m">>), productClass |-> Str(<<"B", "o", "u", "r", "b", "o", "n">>),
      alcoholContent |-> NumAbv(450), netContents |-> Undefined]}

HandlerTexts == {JoinLines({1, 2, 6, 10}, 1)}

\* performVerification on the handler's inputs, evaluated once per input
VerificationOf == [text \in HandlerTexts, form \in HandlerForms |->
                      performVerification(text, form)]

NoResponse == [status |-> 0, success |-> FALSE, body |-> NoResult,
               extracted_text |-> <<>>, form_input |-> NoForm]

\* extractedText.substring(0, 300) + (extractedText.length > 300 ? '...' : '')
Truncated(text) ==
    SubSeq(text, 1, IF Len(text) > TruncateLength THEN TruncateLength ELSE Len(text))
        \o (IF Len(text) > TruncateLength THEN <<".", ".", ".">> ELSE <<>>)

\* the verificationResults of a label on which OCR found no text
OcrEmptyResults == [kind |-> "ocr-empty", error |-> "no-text", overall_match |-> FALSE,
                    discrepancies |-> <<>>]

\* res.json({success: true, ...verificationResults, extracted_text, form_input})
OkResponse(results, text, form) ==
    [status |-> 200, success |-> TRUE, body |-> results,
     extracted_text |-> Truncated(text), form_input |-> form]

\* res.status(400).json(...) and res.status(500).json(...)
ErrorResponse(status, details) ==
    [status |-> status, success |-> FALSE,
     body |-> [kind |-> "none", error |-> details, overall_match |-> FALSE,
               discrepancies |-> <<>>],
     extracted_text |-> <<>>, form_input |-> NoForm]

HandlerInit ==
    /\ reqs = [r \in Requests |-> [pc |-> "new", formFields |-> NoForm]]
    /\ uploads = {}
    /\ unlinked = {}
    /\ responses = [r \in Requests |-> NoResponse]
    /\ errLog = 0
    /\ nText = <<>>
    /\ nOnce = <<>>
    /\ nTwice = <<>>
    /\ nPc = "idle"
    /\ extractedText = <<>>
    /\ formInput = NoForm
    /\ result = NoResult
    /\ pc = "idle"

\* a request without a file: rejected with 400 before any OCR work
ReceiveWithoutFile(r) ==
    /\ reqs[r].pc = "new"
    /\ \E form \in HandlerForms :
         reqs' = [reqs EXCEPT ![r] = [pc |-> "done", formFields |-> form]]
    /\ responses' = [responses EXCEPT ![r] = ErrorResponse(400, "No image file uploaded.")]
    /\ UNCHANGED <<uploads, unlinked, errLog, normVars, engineVars>>

\* a request with a file: multer stores it, the handler runs to the await
ReceiveWithFile(r) ==
    /\ reqs[r].pc = "new"
    /\ \E form \in HandlerForms :
         reqs' = [reqs EXCEPT ![r] = [pc |-> "awaiting", formFields |-> form]]
    /\ uploads' = uploads \cup {r}
    /\ UNCHANGED <<unlinked, responses, errLog, normVars, engineVars>>

\* the OCR call resolves with detections: verification, response (200, or
\* 500 when the engine raises), then the finally block
OcrReturnsText(r) ==
    /\ reqs[r].pc = "awaiting"
    /\ \E text \in HandlerTexts :
         LET results == VerificationOf[text, reqs[r].formFields]
         IN  IF results.kind = "exception"
             THEN /\ responses' = [responses EXCEPT ![r] = ErrorResponse(500, results.error)]
                  /\ errLog' = errLog + 1
             ELSE /\ responses' = [responses EXCEPT ![r] =
                                      OkResponse(results, text, reqs[r].formFields)]
                  /\ errLog' = errLog
    /\ unlinked' = unlinked \cup {r}
    /\ reqs' = [reqs EXCEPT ![r].pc = "unlinking"]
    /\ UNCHANGED <<uploads, normVars, engineVars>>

\* the OCR call resolves without detections: the no-text report, then the
\* finally block
OcrReturnsNothing(r) ==
    /\ reqs[r].pc = "awaiting"
    /\ responses' = [responses EXCEPT ![r] =
                        OkResponse(OcrEmptyResults, <<>>, reqs[r].formFields)]
    /\ unlinked' = unlinked \cup {r}
    /\ reqs' = [reqs EXCEPT ![r].pc = "unlinking"]
    /\ UNCHANGED <<uploads, errLog, normVars, engineVars>>

\* a buggy handler that deletes the file at the end of the try block only
OcrFails_NoFinally(r) ==
    /\ reqs[r].pc = "awaiting"
    /\ responses' = [responses EXCEPT ![r] = ErrorResponse(500, "provider error")]
    /\ errLog' = errLog + 1
    /\ reqs' = [reqs EXCEPT ![r].pc = "done"]
    /\ UNCHANGED <<uploads, unlinked, normVars, engineVars>>

\* the OCR call rejects: the catch block (log, 500), then the finally block
OcrFails(r) ==
    /\ reqs[r].pc = "awaiting"
    /\ responses' = [responses EXCEPT ![r] = ErrorResponse(500, "provider error")]
    /\ errLog' = errLog + 1
    /\ unlinked' = unlinked \cup {r}
    /\ reqs' = [reqs EXCEPT ![r].pc = "unlinking"]
    /\ UNCHANGED <<uploads, normVars, engineVars>>

\* the callback of fs.unlink, the file removed
UnlinkSucceeds(r) ==
    /\ reqs[r].pc = "unlinking"
    /\ uploads' = uploads \ {r}
    /\ reqs' = [reqs EXCEPT ![r].pc = "done"]
    /\ UNCHANGED <<unlinked, responses, errLog, normVars, engineVars>>

\* the callback of fs.unlink with an error: logged, the file stays
UnlinkFails(r) ==
    /\ reqs[r].pc = "unlinking"
    /\ errLog' = errLog + 1
    /\ reqs' = [reqs EXCEPT ![r].pc = "done"]
    /\ UNCHANGED <<uploads, unlinked, responses, normVars, engineVars>>

OcrSettles(r) == OcrReturnsText(r) \/ OcrReturnsNothing(r) \/ OcrFails(r)

UnlinkCompletes(r) == UnlinkSucceeds(r) \/ UnlinkFails(r)

HandlerNext ==
    \E r \in Requests :
        \/ ReceiveWithoutFile(r)
        \/ ReceiveWithFile(r)
        \/ OcrReturnsText(r)
        \/ OcrReturnsNothing(r)
        \/ OcrFails(r)
        \/ UnlinkSucceeds(r)
        \/ UnlinkFails(r)

HandlerSpec == HandlerInit /\ [][HandlerNext]_vars

\* the OCR promise settles and the event loop runs every continuation and
\* callback that is ready
LiveSpec ==
    /\ HandlerSpec
    /\ \A r \in Requests : WF_vars(OcrSettles(r)) /\ WF_vars(UnlinkCompletes(r))

\* C8: for every request that carries a file, fs.unlink is eventually
\* invoked on its temp file, on every exit path of the handler.
C8_TempFileEventuallyUnlinked ==
    \A r \in Requests : (r \in uploads) ~> (r \in unlinked)

\* a request whose OCR call failed (response 500) and whose temp file was
\* handed to fs.unlink
C8_Witness ==
    \E r \in Requests :
        /\ responses[r].status = 500
        /\ responses[r].body.error = "provider error"
        /\ r \in unlinked
        /\ reqs[r].pc = "done"

====
